---- MODULE Spec2Model ----
(***************************************************************************)
(* Iteration job-state bookkeeping of Inversionson:                        *)
(*   ProjectComponent   (components/project.py)  iteration tomls, control  *)
(*                      group toml, in-memory iteration attributes         *)
(*   SalvusFlowComponent (components/flow_comp.py) job submission,         *)
(*                      retrieval and status against Salvus Flow           *)
(*                                                                         *)
(* Python dicts are functions; a dict with a key set that depends on the   *)
(* run (an object's attributes, a toml document) is a function whose       *)
(* DOMAIN is that key set.  A file that does not exist is a name outside   *)
(* the DOMAIN of the directory it would live in.                           *)
(***************************************************************************)
EXTENDS Integers, FiniteSets, Sequences, TLC

\* ---- bounds of the model
MaxIter == 2
MaxJobs == 2

\* ---- values
NoName == 0
NoReposts == 0
ZeroMisfit == 0

Events == {"E1", "E2"}
ValidationEvents == {"V1"}
SimTypes == {"forward", "adjoint", "smoothing"}
InversionModes == {"mini-batch", "mono-batch"}
MeshModes == {"mono-mesh", "multi-mesh"}
SmoothingParams == {"VP"}
ControlGroups == {{}, {"E1"}}

\* An empty dict.
EmptyDict == [k \in {} |-> 0]

\* dict.update: the keys of g override those of f.
Merge(f, g) == g @@ f

\* ---- iteration names: "itNNNN_model" and "validation_itNNNN_model"
ItName(i) == [validation |-> FALSE, idx |-> i]

\* f"validation_{iteration}"
ValidationName(iteration) == [validation |-> TRUE, idx |-> iteration.idx]

\* "validation" in iteration
IsValidation(iteration) == iteration.validation

\* the default argument iteration="current"
Current == [validation |-> FALSE, idx |-> -1]

IterationNames == [validation : BOOLEAN, idx : 0..MaxIter]

VARIABLES
    inversion_mode,      \* info["inversion_mode"]
    meshes,              \* info["meshes"]
    newest,              \* index of salvus_opt's newest iteration
    iteration_tomls,     \* DOCUMENTATION/ITERATIONS/<iteration>.toml
    backups,             \* DOCUMENTATION/ITERATIONS/backup_<iteration>.toml
    control_group_toml,  \* DOCUMENTATION/control_groups.toml
    project,             \* attributes of the ProjectComponent object
    site,                \* Salvus Flow: job name -> status
    outputs,             \* job names whose output copy_output has copied
    writer,              \* history: the method that wrote each iteration toml last
    saving               \* per driver: the call that stands between its read and its toml.dump

vars == <<inversion_mode, meshes, newest, iteration_tomls, backups, control_group_toml, project, site, outputs, writer, saving>>

\* ---- collaborators
\* comm.lasif.list_events(iteration=iteration)
list_events(iteration) == IF IsValidation(iteration) THEN ValidationEvents ELSE Events

\* comm.salvus_opt.get_newest_iteration_name()
get_newest_iteration_name == ItName(newest)

\* comm.salvus_opt.get_previous_iteration_name(); it raises when there is none
HasPreviousIteration == newest > 0

get_previous_iteration_name == ItName(newest - 1)

\* obj.attr[key] can be read
HasKey(obj, attr, key) == attr \in DOMAIN obj /\ key \in DOMAIN obj[attr]

\* ---- the drivers that call the components side by side
Drivers == {1, 2}

\* a driver that is in no update_iteration_toml call
Idle == [pc |-> "idle"]

\* ---- ProjectComponent.create_iteration_toml
\* a job record seeded as submitted
JobDictSubmitted == [name |-> NoName, submitted |-> TRUE, retrieved |-> FALSE, reposts |-> NoReposts]

JobDict == [name |-> NoName, submitted |-> FALSE, retrieved |-> FALSE, reposts |-> NoReposts]

\* a forward job record without windows_selected
f_job_dict_plain(validation, mesh) == IF mesh = "multi-mesh" THEN Merge(JobDict, [interpolated |-> FALSE]) ELSE JobDict

f_job_dict(validation, mesh) ==
    LET windows == IF validation THEN [windows_selected |-> FALSE] ELSE EmptyDict
        interp == IF mesh = "multi-mesh" THEN [interpolated |-> FALSE] ELSE EmptyDict
    IN  Merge(Merge(JobDict, windows), interp)

a_job_dict(mesh) == IF mesh = "multi-mesh" THEN Merge(JobDict, [interpolated |-> FALSE]) ELSE JobDict

s_job_dict == JobDict

\* the control group toml can be read for the previous iteration's new group
CanReadLastControlGroup(cg) ==
    /\ cg.exists
    /\ HasPreviousIteration
    /\ get_previous_iteration_name \in DOMAIN cg.dict
    /\ "new" \in DOMAIN cg.dict[get_previous_iteration_name]

NeedsLastControlGroup(iteration) == iteration # ItName(0) /\ ~IsValidation(iteration)

CreateJobs(validation, mode, mesh) ==
    IF validation THEN [forward |-> f_job_dict(TRUE, mesh)]
    ELSE IF mode = "mini-batch"
         THEN [forward |-> f_job_dict(FALSE, mesh), adjoint |-> a_job_dict(mesh), smoothing |-> s_job_dict]
         ELSE [forward |-> f_job_dict(FALSE, mesh), adjoint |-> a_job_dict(mesh)]

CreateEventDict(validation, mode, mesh) ==
    IF validation THEN [job_info |-> CreateJobs(validation, mode, mesh)]
    ELSE [job_info |-> CreateJobs(validation, mode, mesh), misfit |-> ZeroMisfit, usage_updated |-> FALSE]

\* a creation that lists the events of every iteration
CreateItDictOfAll(iteration, cg, mode, mesh) ==
    LET validation == IsValidation(iteration)
        last_control_group == IF NeedsLastControlGroup(iteration) THEN cg.dict[get_previous_iteration_name].new ELSE {}
        base == [name |-> iteration, events |-> [event \in Events \cup ValidationEvents |-> CreateEventDict(validation, mode, mesh)]]
        groups == IF validation THEN EmptyDict ELSE [last_control_group |-> last_control_group, new_control_group |-> {}]
        smoothing == IF mode = "mono-batch" /\ ~validation THEN [smoothing |-> s_job_dict] ELSE EmptyDict
    IN  Merge(Merge(base, groups), smoothing)

CreateItDict(iteration, cg, mode, mesh) ==
    LET validation == IsValidation(iteration)
        last_control_group == IF NeedsLastControlGroup(iteration) THEN cg.dict[get_previous_iteration_name].new ELSE {}
        base == [name |-> iteration, events |-> [event \in list_events(iteration) |-> CreateEventDict(validation, mode, mesh)]]
        groups == IF validation THEN EmptyDict ELSE [last_control_group |-> last_control_group, new_control_group |-> {}]
        smoothing == IF mode = "mono-batch" /\ ~validation THEN [smoothing |-> s_job_dict] ELSE EmptyDict
    IN  Merge(Merge(base, groups), smoothing)

\* a creation that copies nothing
BackupOfNone(tomls, bk, iteration) == bk

\* shutil.copyfile(iteration_toml, backup) when the toml exists
BackupOf(tomls, bk, iteration) == IF iteration \in DOMAIN tomls THEN Merge(bk, iteration :> tomls[iteration]) ELSE bk

create_iteration_toml(iteration) ==
    /\ backups' = BackupOf(iteration_tomls, backups, iteration)
    /\ IF NeedsLastControlGroup(iteration) => CanReadLastControlGroup(control_group_toml)
       THEN /\ iteration_tomls' = Merge(iteration_tomls, iteration :> CreateItDict(iteration, control_group_toml, inversion_mode, meshes))
            /\ writer' = Merge(writer, iteration :> "create_iteration_toml")
       ELSE /\ iteration_tomls' = iteration_tomls
            /\ writer' = writer
    /\ UNCHANGED <<inversion_mode, meshes, newest, control_group_toml, project, site, outputs, saving>>

\* ---- ProjectComponent.update_iteration_toml
UpdateValidation(proj, iteration, validation) ==
    LET it == IF iteration = Current THEN proj.current_iteration ELSE iteration
    IN  validation \/ IsValidation(it)

UpdateName(proj, iteration, validation) ==
    LET it == IF iteration = Current THEN proj.current_iteration ELSE iteration
    IN  IF UpdateValidation(proj, iteration, validation) /\ ~IsValidation(it) THEN ValidationName(it) ELSE it

\* a save that does not touch it_dict["smoothing"]
MonoSmoothingSkipped(mode, validation) == FALSE

\* it_dict["smoothing"] == self.smoothing_job reads a key it_dict does not hold
MonoSmoothingRaises(mode, validation) == mode = "mono-batch" /\ ~validation

\* every read of update_iteration_toml succeeds, so that the toml is written
CanUpdate(proj, tomls, cg, mode, iteration, validation) ==
    /\ iteration \in DOMAIN tomls
    /\ (cg.exists /\ ~validation) => (iteration \in DOMAIN cg.dict /\ {"old", "new"} \subseteq DOMAIN cg.dict[iteration])
    /\ \A event \in list_events(iteration) :
          /\ HasKey(proj, "forward_job", event)
          /\ ~validation => HasKey(proj, "adjoint_job", event)
          /\ (mode = "mini-batch" /\ ~validation) => HasKey(proj, "smoothing_job", event)
          /\ ~validation => (HasKey(proj, "misfits", event) /\ HasKey(proj, "updated", event))
    /\ ~MonoSmoothingRaises(mode, validation)

UpdateJobs(proj, mode, validation, event) ==
    IF validation THEN [forward |-> proj.forward_job[event]]
    ELSE IF mode = "mini-batch"
         THEN [forward |-> proj.forward_job[event], adjoint |-> proj.adjoint_job[event], smoothing |-> proj.smoothing_job[event]]
         ELSE [forward |-> proj.forward_job[event], adjoint |-> proj.adjoint_job[event]]

UpdateEventDict(proj, mode, validation, event) ==
    IF validation THEN [job_info |-> UpdateJobs(proj, mode, validation, event)]
    ELSE [job_info |-> UpdateJobs(proj, mode, validation, event), misfit |-> proj.misfits[event], usage_updated |-> proj.updated[event]]

UpdateItDict(proj, cg, mode, iteration, validation) ==
    LET control_group_dict == IF cg.exists /\ ~validation THEN cg.dict[iteration] ELSE [old |-> {}, new |-> {}]
        base == [name |-> iteration, events |-> [event \in list_events(iteration) |-> UpdateEventDict(proj, mode, validation, event)]]
        groups == IF validation THEN EmptyDict ELSE [last_control_group |-> control_group_dict.old, new_control_group |-> control_group_dict.new]
    IN  Merge(base, groups)

\* a save that leaves the toml as it was
NotUpdatedTomls(proj, tomls, cg, mode, iteration, validation) == tomls

\* the iteration tomls after update_iteration_toml(iteration, validation); the
\* call raises, and writes nothing, exactly when they are unchanged by CanUpdate
UpdatedTomls(proj, tomls, cg, mode, iteration, validation) ==
    LET it == UpdateName(proj, iteration, validation)
        val == UpdateValidation(proj, iteration, validation)
    IN  IF CanUpdate(proj, tomls, cg, mode, it, val)
        THEN Merge(tomls, it :> UpdateItDict(proj, cg, mode, it, val))
        ELSE tomls

UpdateOk(proj, tomls, cg, mode, iteration, validation) == CanUpdate(proj, tomls, cg, mode, UpdateName(proj, iteration, validation), UpdateValidation(proj, iteration, validation))

\* history: update_iteration_toml wrote the toml it names
UpdatedWriter(w, proj, tomls, cg, mode, iteration, validation) ==
    IF UpdateOk(proj, tomls, cg, mode, iteration, validation)
    THEN Merge(w, UpdateName(proj, iteration, validation) :> "update_iteration_toml")
    ELSE w

update_iteration_toml(iteration, validation) ==
    /\ iteration_tomls' = UpdatedTomls(project, iteration_tomls, control_group_toml, inversion_mode, iteration, validation)
    /\ writer' = UpdatedWriter(writer, project, iteration_tomls, control_group_toml, inversion_mode, iteration, validation)
    /\ UNCHANGED <<inversion_mode, meshes, newest, backups, control_group_toml, project, site, outputs, saving>>

\* ---- ProjectComponent.update_iteration_toml, step by step, as a driver
\* runs it next to another one
\* open(iteration_toml, "w") leaves an empty file until toml.dump has written
Truncated == EmptyDict

\* an open that empties every iteration toml
OpenedAll(tomls, iteration) == [name \in DOMAIN tomls |-> Truncated]

OpenedTomls(tomls, iteration) == Merge(tomls, iteration :> Truncated)

\* toml.dump(it_dict, fh)
DumpedTomls(tomls, iteration, it_dict) == Merge(tomls, iteration :> it_dict)

\* it_dict is built from memory and the control group toml, then the file is opened
open_iteration_toml(driver, iteration, validation) ==
    /\ saving[driver] = Idle
    /\ UpdateOk(project, iteration_tomls, control_group_toml, inversion_mode, iteration, validation)
    /\ iteration_tomls' = OpenedTomls(iteration_tomls, UpdateName(project, iteration, validation))
    /\ saving' = [saving EXCEPT ![driver] =
                     [pc |-> "dump",
                      iteration |-> UpdateName(project, iteration, validation),
                      it_dict |-> UpdateItDict(project, control_group_toml, inversion_mode, UpdateName(project, iteration, validation), UpdateValidation(project, iteration, validation))]]
    /\ UNCHANGED <<inversion_mode, meshes, newest, backups, control_group_toml, project, site, outputs, writer>>

dump_iteration_toml(driver) ==
    /\ saving[driver] # Idle
    /\ saving[driver].pc = "dump"
    /\ iteration_tomls' = DumpedTomls(iteration_tomls, saving[driver].iteration, saving[driver].it_dict)
    /\ writer' = Merge(writer, saving[driver].iteration :> "update_iteration_toml")
    /\ saving' = [saving EXCEPT ![driver] = Idle]
    /\ UNCHANGED <<inversion_mode, meshes, newest, backups, control_group_toml, project, site, outputs>>

\* ---- ProjectComponent.get_iteration_attributes
AttributesName(validation) == IF validation THEN ValidationName(get_newest_iteration_name) ELSE get_newest_iteration_name

LoadedAttributes(proj, it_dict, mode, validation) ==
    LET events_in_iteration == DOMAIN it_dict.events
        common == [iteration_name |-> it_dict.name, current_iteration |-> it_dict.name, events_in_iteration |-> events_in_iteration, forward_job |-> [event \in events_in_iteration |-> it_dict.events[event].job_info.forward]]
        regular == [old_control_group |-> it_dict.last_control_group, new_control_group |-> it_dict.new_control_group, adjoint_job |-> [event \in events_in_iteration |-> it_dict.events[event].job_info.adjoint], smoothing_job |-> IF mode = "mini-batch" THEN [event \in events_in_iteration |-> it_dict.events[event].job_info.smoothing] ELSE it_dict.smoothing, misfits |-> [event \in events_in_iteration |-> it_dict.events[event].misfit], updated |-> [event \in events_in_iteration |-> it_dict.events[event].usage_updated]]
    IN  IF validation THEN Merge(proj, common) ELSE Merge(proj, Merge(common, regular))

\* the toml of the iteration exists and holds a record; the method raises
\* before it assigns anything when the file does not exist, and at
\* it_dict["name"], its first assignment, when the file is empty
CanLoad(tomls, validation) ==
    /\ AttributesName(validation) \in DOMAIN tomls
    /\ "name" \in DOMAIN tomls[AttributesName(validation)]

\* a load that names the current iteration before it looks for the toml
GotAttributesNamedFirst(proj, tomls, mode, validation) ==
    IF CanLoad(tomls, validation)
    THEN LoadedAttributes(proj, tomls[AttributesName(validation)], mode, validation)
    ELSE Merge(proj, [current_iteration |-> AttributesName(validation)])

GotAttributes(proj, tomls, mode, validation) ==
    IF CanLoad(tomls, validation)
    THEN LoadedAttributes(proj, tomls[AttributesName(validation)], mode, validation)
    ELSE proj

get_iteration_attributes(validation) ==
    /\ project' = GotAttributes(project, iteration_tomls, inversion_mode, validation)
    /\ UNCHANGED <<inversion_mode, meshes, newest, iteration_tomls, backups, control_group_toml, site, outputs, writer, saving>>

\* ---- ProjectComponent.get_old_iteration_info
\* the toml of the iteration exists; the method raises when it does not
CanGetOldIterationInfo(tomls, iteration) == iteration \in DOMAIN tomls

\* a lookup that returns the name alone
OldIterationInfoNameOnly(tomls, iteration) == [name |-> tomls[iteration].name]

\* the dict returned
OldIterationInfo(tomls, iteration) == tomls[iteration]

get_old_iteration_info(iteration) == UNCHANGED vars

\* ---- ProjectComponent.change_attribute: exec(f"self.{attribute} = {new_value}")
\* attribute is a path: <<attr>>, <<attr, key>> or <<attr, key, field>>
CanChange(proj, attribute) ==
    CASE Len(attribute) = 1 -> TRUE
      [] Len(attribute) = 2 -> attribute[1] \in DOMAIN proj
      [] OTHER -> HasKey(proj, attribute[1], attribute[2])

Changed(proj, attribute, new_value) ==
    CASE Len(attribute) = 1 -> Merge(proj, attribute[1] :> new_value)
      [] Len(attribute) = 2 -> [proj EXCEPT ![attribute[1]] = Merge(@, attribute[2] :> new_value)]
      [] OTHER -> [proj EXCEPT ![attribute[1]][attribute[2]] = Merge(@, attribute[3] :> new_value)]

\* the attributes the other components set, with the values they give them
GroupInputs == {<<(<<"new_control_group">>), g>> : g \in ControlGroups}

StoreInputs == {<<(<<"new_control_group">>), {"E1"}>>, <<(<<"misfits", "E1">>), 1>>, <<(<<"updated", "E1">>), TRUE>>}

change_attribute(attribute, new_value) ==
    /\ IF CanChange(project, attribute)
       THEN project' = Changed(project, attribute, new_value)
       ELSE project' = project
    /\ UNCHANGED <<inversion_mode, meshes, newest, iteration_tomls, backups, control_group_toml, site, outputs, writer, saving>>

\* ---- ProjectComponent.update_control_group_toml
\* "if new not in cg_dict[iteration].keys()" with new = False: no key is False
NewNotInKeys(entry) == TRUE

FirstControlGroups(iteration) == [exists |-> TRUE, dict |-> (iteration :> [old |-> {}, new |-> {}])]

\* new=False: the entry of the iteration is emptied, old is read from the
\* previous iteration's entry of the dict so changed
CanStartControlGroup(cg, iteration) ==
    /\ cg.exists
    /\ HasPreviousIteration
    /\ get_previous_iteration_name \in DOMAIN Merge(cg.dict, iteration :> EmptyDict)
    /\ "new" \in DOMAIN Merge(cg.dict, iteration :> EmptyDict)[get_previous_iteration_name]

StartedControlGroups(cg, iteration) ==
    LET cleared == Merge(cg.dict, iteration :> EmptyDict)
        with_old == [old |-> cleared[get_previous_iteration_name].new]
        entry == IF NewNotInKeys(with_old) THEN Merge(with_old, [new |-> {}]) ELSE with_old
    IN  [exists |-> TRUE, dict |-> Merge(cg.dict, iteration :> entry)]

\* new=True
CanCommitControlGroup(cg, proj) == cg.exists /\ "new_control_group" \in DOMAIN proj

CommittedControlGroups(cg, proj, iteration) ==
    LET entry == IF iteration \in DOMAIN cg.dict THEN cg.dict[iteration] ELSE EmptyDict
    IN  [exists |-> TRUE, dict |-> Merge(cg.dict, iteration :> Merge(entry, [new |-> proj.new_control_group]))]

ControlGroupsOk(cg, proj, new, first) ==
    IF first THEN TRUE
    ELSE IF new THEN CanCommitControlGroup(cg, proj)
    ELSE CanStartControlGroup(cg, proj.current_iteration)

UpdatedControlGroups(cg, proj, new, first) ==
    IF ~ControlGroupsOk(cg, proj, new, first) THEN cg
    ELSE IF first THEN FirstControlGroups(proj.current_iteration)
    ELSE IF new THEN CommittedControlGroups(cg, proj, proj.current_iteration)
    ELSE StartedControlGroups(cg, proj.current_iteration)

update_control_group_toml(new, first) ==
    /\ control_group_toml' = UpdatedControlGroups(control_group_toml, project, new, first)
    /\ UNCHANGED <<inversion_mode, meshes, newest, iteration_tomls, backups, project, site, outputs, writer, saving>>

\* ---- ProjectComponent.update_control_group_toml(first=False), step by
\* step, as a driver runs it next to another one; the memory a driver reads
\* is the memory at the moment of its call
\* toml.load of the control group toml and the change of cg_dict
load_control_group_toml(driver, new) ==
    /\ saving[driver] = Idle
    /\ ControlGroupsOk(control_group_toml, project, new, FALSE)
    /\ saving' = [saving EXCEPT ![driver] =
                     [pc |-> "dump_cg",
                      iteration |-> project.current_iteration,
                      cg_dict |-> UpdatedControlGroups(control_group_toml, project, new, FALSE).dict]]
    /\ UNCHANGED <<inversion_mode, meshes, newest, iteration_tomls, backups, control_group_toml, project, site, outputs, writer>>

\* toml.dump(cg_dict, fh)
dump_control_group_toml(driver) ==
    /\ saving[driver] # Idle
    /\ saving[driver].pc = "dump_cg"
    /\ control_group_toml' = [exists |-> TRUE, dict |-> saving[driver].cg_dict]
    /\ saving' = [saving EXCEPT ![driver] = Idle]
    /\ UNCHANGED <<inversion_mode, meshes, newest, iteration_tomls, backups, project, site, outputs, writer>>

\* ---- Salvus Flow
\* sapi.run_async: the site names the new job
NextJobName(jobs) == Cardinality(DOMAIN jobs) + 1

RunAsync(jobs) == Merge(jobs, NextJobName(jobs) :> "RUNNING")

\* sapi.get_job(job_name=..., site_name=...) finds the job
JobExists(jobs, job_name) == job_name \in DOMAIN jobs

\* the site runs a job to its end
JobEnds(job_name, status) ==
    /\ JobExists(site, job_name)
    /\ site[job_name] = "RUNNING"
    /\ site' = [site EXCEPT ![job_name] = status]
    /\ UNCHANGED <<inversion_mode, meshes, newest, iteration_tomls, backups, control_group_toml, project, outputs, writer, saving>>

\* ---- SalvusFlowComponent.submit_job
CanRecordJob(proj, event, sim_type) ==
    CASE sim_type = "forward" -> HasKey(proj, "forward_job", event)
      [] sim_type = "adjoint" -> HasKey(proj, "adjoint_job", event)
      [] OTHER -> TRUE

\* a record of the name alone, without submitted
RecordedJobNameOnly(proj, event, sim_type, job_name) ==
    CASE sim_type = "forward" -> Changed(proj, <<"forward_job", event, "name">>, job_name)
      [] sim_type = "adjoint" -> Changed(proj, <<"adjoint_job", event, "name">>, job_name)
      [] OTHER -> proj

\* a record that sets retrieved where submitted is meant
RecordedJobRetrieved(proj, event, sim_type, job_name) ==
    CASE sim_type = "forward" -> Changed(Changed(proj, <<"forward_job", event, "name">>, job_name), <<"forward_job", event, "retrieved">>, TRUE)
      [] sim_type = "adjoint" -> Changed(Changed(proj, <<"adjoint_job", event, "name">>, job_name), <<"adjoint_job", event, "retrieved">>, TRUE)
      [] OTHER -> proj

RecordedJob(proj, event, sim_type, job_name) ==
    CASE sim_type = "forward" -> Changed(Changed(proj, <<"forward_job", event, "name">>, job_name), <<"forward_job", event, "submitted">>, TRUE)
      [] sim_type = "adjoint" -> Changed(Changed(proj, <<"adjoint_job", event, "name">>, job_name), <<"adjoint_job", event, "submitted">>, TRUE)
      [] OTHER -> proj

submit_job(event, sim_type) ==
    /\ Cardinality(DOMAIN site) < MaxJobs
    /\ site' = RunAsync(site)
    /\ IF CanRecordJob(project, event, sim_type)
       THEN /\ project' = RecordedJob(project, event, sim_type, NextJobName(site))
            /\ iteration_tomls' = UpdatedTomls(project', iteration_tomls, control_group_toml, inversion_mode, Current, FALSE)
            /\ writer' = UpdatedWriter(writer, project', iteration_tomls, control_group_toml, inversion_mode, Current, FALSE)
       ELSE /\ project' = project
            /\ iteration_tomls' = iteration_tomls
            /\ writer' = writer
    /\ UNCHANGED <<inversion_mode, meshes, newest, backups, control_group_toml, outputs, saving>>

\* ---- SalvusFlowComponent.submit_smoothing_job
\* smoothing_job[event][par] must be a dict for ["name"] to be assigned in it
CanRecordSmoothingJob(proj, event, par) == HasKey(proj, "smoothing_job", event) /\ par \in DOMAIN proj.smoothing_job[event]

RecordedSmoothingJob(proj, event, par, job_name) == [proj EXCEPT !.smoothing_job[event][par] = Merge(Merge(@, [name |-> job_name]), [submitted |-> TRUE])]

submit_smoothing_job(event, par) ==
    /\ Cardinality(DOMAIN site) < MaxJobs
    /\ site' = RunAsync(site)
    /\ IF CanRecordSmoothingJob(project, event, par)
       THEN project' = RecordedSmoothingJob(project, event, par, NextJobName(site))
       ELSE project' = project
    /\ UNCHANGED <<inversion_mode, meshes, newest, iteration_tomls, backups, control_group_toml, outputs, writer, saving>>

\* ---- SalvusFlowComponent._get_job_name(new=False, iteration="current")
CanReadJobName(proj, mode, event, sim_type) ==
    CASE sim_type = "forward" -> HasKey(proj, "forward_job", event)
      [] sim_type = "adjoint" -> HasKey(proj, "adjoint_job", event)
      [] OTHER -> IF mode = "mono-batch" THEN HasKey(proj, "smoothing_job", "name") ELSE HasKey(proj, "smoothing_job", event)

CurrentJobName(proj, mode, event, sim_type) ==
    CASE sim_type = "forward" -> proj.forward_job[event].name
      [] sim_type = "adjoint" -> proj.adjoint_job[event].name
      [] OTHER -> IF mode = "mono-batch" THEN proj.smoothing_job.name ELSE proj.smoothing_job[event].name

\* ---- SalvusFlowComponent._get_job_name(new=False, iteration=<a name>)
\* the name is read in the toml of the iteration, under the event
CanReadOldJobName(tomls, event, sim_type, iteration) ==
    /\ CanGetOldIterationInfo(tomls, iteration)
    /\ event \in DOMAIN OldIterationInfo(tomls, iteration).events
    /\ sim_type \in DOMAIN OldIterationInfo(tomls, iteration).events[event].job_info

OldJobName(tomls, event, sim_type, iteration) == OldIterationInfo(tomls, iteration).events[event].job_info[sim_type].name

\* ---- SalvusFlowComponent.get_job_name
\* the name is read, in memory for iteration="current" and in the toml of
\* the iteration otherwise
ReadsJobName(proj, tomls, mode, event, sim_type, iteration) ==
    IF iteration = Current
    THEN CanReadJobName(proj, mode, event, sim_type)
    ELSE CanReadOldJobName(tomls, event, sim_type, iteration)

\* _get_job_name ends with update_iteration_toml()
get_job_name(event, sim_type, iteration) ==
    /\ IF ReadsJobName(project, iteration_tomls, inversion_mode, event, sim_type, iteration)
       THEN /\ iteration_tomls' = UpdatedTomls(project, iteration_tomls, control_group_toml, inversion_mode, Current, FALSE)
            /\ writer' = UpdatedWriter(writer, project, iteration_tomls, control_group_toml, inversion_mode, Current, FALSE)
       ELSE /\ iteration_tomls' = iteration_tomls
            /\ writer' = writer
    /\ UNCHANGED <<inversion_mode, meshes, newest, backups, control_group_toml, project, site, outputs, saving>>

\* ---- SalvusFlowComponent.get_job_file_paths
CanGetJobFilePaths(proj, jobs, event, sim_type) ==
    /\ sim_type \in {"forward", "adjoint"}
    /\ CanRecordJob(proj, event, sim_type)
    /\ JobExists(jobs, IF sim_type = "forward" THEN proj.forward_job[event].name ELSE proj.adjoint_job[event].name)

get_job_file_paths(event, sim_type) == UNCHANGED vars

\* ---- SalvusFlowComponent.retrieve_outputs
\* the job name was read and the iteration toml rewritten
GotJobName(proj, tomls, cg, mode, event, sim_type) == CanReadJobName(proj, mode, event, sim_type) /\ UpdateOk(proj, tomls, cg, mode, Current, FALSE)

\* copy_output is reached: the job is found at the site and sim_type has a destination
ReachesCopy(proj, tomls, cg, mode, jobs, event, sim_type) ==
    /\ GotJobName(proj, tomls, cg, mode, event, sim_type)
    /\ JobExists(jobs, CurrentJobName(proj, mode, event, sim_type))
    /\ sim_type \in {"forward", "adjoint"}

\* salvus_job.copy_output: the outcomes Salvus Flow can produce for a job in
\* this status; retrieve_outputs asks for no status before it copies
CopyOutcomes(status) == IF status = "COMPLETE" THEN {TRUE} ELSE {TRUE, FALSE}

retrieve_outputs(event_name, sim_type) ==
    /\ IF CanReadJobName(project, inversion_mode, event_name, sim_type)
       THEN /\ iteration_tomls' = UpdatedTomls(project, iteration_tomls, control_group_toml, inversion_mode, Current, FALSE)
            /\ writer' = UpdatedWriter(writer, project, iteration_tomls, control_group_toml, inversion_mode, Current, FALSE)
       ELSE /\ iteration_tomls' = iteration_tomls
            /\ writer' = writer
    /\ IF ReachesCopy(project, iteration_tomls, control_group_toml, inversion_mode, site, event_name, sim_type)
       THEN \E copied \in CopyOutcomes(site[CurrentJobName(project, inversion_mode, event_name, sim_type)]) :
               outputs' = IF copied THEN outputs \cup {CurrentJobName(project, inversion_mode, event_name, sim_type)} ELSE outputs
       ELSE outputs' = outputs
    /\ UNCHANGED <<inversion_mode, meshes, newest, backups, control_group_toml, project, site, saving>>

\* ---- SalvusFlowComponent.get_job
IsCurrentIteration(proj, iteration) == iteration = Current \/ iteration = proj.current_iteration

\* the job record in memory that get_job reads for the current iteration
HasCurrentRecord(proj, mode, event, sim_type) ==
    CASE sim_type = "forward" -> HasKey(proj, "forward_job", event)
      [] sim_type = "adjoint" -> HasKey(proj, "adjoint_job", event)
      [] OTHER -> IF mode = "mono-batch" THEN HasKey(proj, "smoothing_job", "submitted") ELSE HasKey(proj, "smoothing_job", event)

CurrentRecord(proj, mode, event, sim_type) ==
    CASE sim_type = "forward" -> proj.forward_job[event]
      [] sim_type = "adjoint" -> proj.adjoint_job[event]
      [] OTHER -> IF mode = "mono-batch" THEN proj.smoothing_job ELSE proj.smoothing_job[event]

\* the job record of the iteration toml that get_job reads for another iteration
HasOldRecord(tomls, mode, event, sim_type, iteration) ==
    /\ CanGetOldIterationInfo(tomls, iteration)
    /\ IF sim_type = "smoothing" /\ mode = "mono-batch"
       THEN "smoothing" \in DOMAIN OldIterationInfo(tomls, iteration)
       ELSE /\ event \in DOMAIN OldIterationInfo(tomls, iteration).events
            /\ sim_type \in DOMAIN OldIterationInfo(tomls, iteration).events[event].job_info

OldRecord(tomls, mode, event, sim_type, iteration) ==
    IF sim_type = "smoothing" /\ mode = "mono-batch"
    THEN OldIterationInfo(tomls, iteration).smoothing
    ELSE OldIterationInfo(tomls, iteration).events[event].job_info[sim_type]

\* job_name is assigned: the current iteration's job must be submitted, an
\* earlier iteration's job only recorded
HasJobName(proj, tomls, mode, event, sim_type, iteration) ==
    IF IsCurrentIteration(proj, iteration)
    THEN HasCurrentRecord(proj, mode, event, sim_type) /\ CurrentRecord(proj, mode, event, sim_type).submitted
    ELSE HasOldRecord(tomls, mode, event, sim_type, iteration)

JobNameOf(proj, tomls, mode, event, sim_type, iteration) ==
    IF IsCurrentIteration(proj, iteration)
    THEN CurrentRecord(proj, mode, event, sim_type).name
    ELSE OldRecord(tomls, mode, event, sim_type, iteration).name

\* get_job returns a job
CanGetJob(proj, tomls, mode, jobs, event, sim_type, iteration) ==
    /\ HasJobName(proj, tomls, mode, event, sim_type, iteration)
    /\ JobExists(jobs, JobNameOf(proj, tomls, mode, event, sim_type, iteration))

\* ---- SalvusFlowComponent.get_job_status
\* a status remembered from the submission
GotJobStatusAtSubmission(proj, tomls, mode, jobs, event, sim_type, iteration) == "RUNNING"

\* job.update_status(force_update=True): the status the site holds now
GotJobStatus(proj, tomls, mode, jobs, event, sim_type, iteration) == jobs[JobNameOf(proj, tomls, mode, event, sim_type, iteration)]

get_job_status(event, sim_type, iteration) == UNCHANGED vars

\* ---- SalvusFlowComponent.delete_stored_wavefields
\* list(iter_info["events"].keys()): the events in an order of the file
EventOrders(events) == {order \in [1..Cardinality(events) -> events] : \A event \in events : \E i \in 1..Cardinality(events) : order[i] = event}

\* job.delete()
Deleted(jobs, job_name) == [jobs EXCEPT ![job_name] = "DELETED"]

\* the loop over the events, left by the first exception: no job record of
\* sim_type (KeyError), no job of that name at the site (sapi.get_job), or
\* a delete that the site refuses (the events of fails)
RECURSIVE DeletedJobs(_, _, _, _, _)
DeletedJobs(jobs, iter_info, sim_type, order, fails) ==
    IF order = <<>> THEN jobs
    ELSE LET event == Head(order)
             job_info == iter_info.events[event].job_info
         IN  IF sim_type \notin DOMAIN job_info THEN jobs
             ELSE IF ~JobExists(jobs, job_info[sim_type].name) THEN jobs
             ELSE IF event \in fails THEN jobs
             ELSE DeletedJobs(Deleted(jobs, job_info[sim_type].name), iter_info, sim_type, Tail(order), fails)

delete_stored_wavefields(iteration, sim_type) ==
    /\ IF CanGetOldIterationInfo(iteration_tomls, iteration)
       THEN \E order \in EventOrders(DOMAIN OldIterationInfo(iteration_tomls, iteration).events),
               fails \in SUBSET DOMAIN OldIterationInfo(iteration_tomls, iteration).events :
               site' = DeletedJobs(site, OldIterationInfo(iteration_tomls, iteration), sim_type, order, fails)
       ELSE site' = site
    /\ UNCHANGED <<inversion_mode, meshes, newest, iteration_tomls, backups, control_group_toml, project, outputs, writer, saving>>

\* ---- salvus_opt: the optimiser opens the next iteration
NewIteration ==
    /\ newest < MaxIter
    /\ newest' = newest + 1
    /\ UNCHANGED <<inversion_mode, meshes, iteration_tomls, backups, control_group_toml, project, site, outputs, writer, saving>>

\* ---- ProjectComponent.__init__: get_inversion_attributes(first=False)
Init ==
    /\ inversion_mode \in InversionModes
    /\ meshes \in MeshModes
    /\ newest = 0
    /\ iteration_tomls = EmptyDict
    /\ backups = EmptyDict
    /\ control_group_toml = [exists |-> FALSE, dict |-> EmptyDict]
    /\ project = [current_iteration |-> ItName(0)]
    /\ site = EmptyDict
    /\ outputs = {}
    /\ writer = EmptyDict
    /\ saving = [driver \in Drivers |-> Idle]

\* ---- job lifecycle of the first iteration and its validation iteration:
\* no control group toml is written, so that update_iteration_toml saves
\* empty control groups, and every submitted job stays RUNNING
FirstNames == {ItName(0), ValidationName(ItName(0))}

Next ==
    \/ \E iteration \in FirstNames : create_iteration_toml(iteration)
    \/ \E validation \in BOOLEAN : update_iteration_toml(Current, validation)
    \/ \E validation \in BOOLEAN : get_iteration_attributes(validation)
    \/ \E event \in Events \cup ValidationEvents, sim_type \in SimTypes : submit_job(event, sim_type)
    \/ \E event \in Events, par \in SmoothingParams : submit_smoothing_job(event, par)
    \/ \E event \in Events \cup ValidationEvents, sim_type \in SimTypes : retrieve_outputs(event, sim_type)

Spec == Init /\ [][Next]_vars

\* ---- jobs of the first iteration that end at the site and are retrieved
NextBackend ==
    \/ create_iteration_toml(ItName(0))
    \/ get_iteration_attributes(FALSE)
    \/ \E event \in Events, sim_type \in SimTypes : submit_job(event, sim_type)
    \/ \E event \in Events, sim_type \in SimTypes : retrieve_outputs(event, sim_type)
    \/ \E job_name \in 1..MaxJobs, status \in {"COMPLETE", "FAILED"} : JobEnds(job_name, status)

SpecBackend == Init /\ [][NextBackend]_vars

\* ---- saving and loading the first iteration while the other components
\* set attributes and the control group toml is written
NextStore ==
    \/ \E iteration \in FirstNames : create_iteration_toml(iteration)
    \/ \E validation \in BOOLEAN : update_iteration_toml(Current, validation)
    \/ \E validation \in BOOLEAN : get_iteration_attributes(validation)
    \/ \E iteration \in FirstNames : get_old_iteration_info(iteration)
    \/ \E input \in StoreInputs : change_attribute(input[1], input[2])
    \/ \E new \in BOOLEAN, first \in BOOLEAN : update_control_group_toml(new, first)

SpecStore == Init /\ [][NextStore]_vars

\* ---- control groups over successive iterations; the iterations created are
\* those the optimiser has opened
NextGroups ==
    \/ NewIteration
    \/ \E i \in 0..newest : create_iteration_toml(ItName(i))
    \/ get_iteration_attributes(FALSE)
    \/ \E input \in GroupInputs : change_attribute(input[1], input[2])
    \/ \E new \in BOOLEAN, first \in BOOLEAN : update_control_group_toml(new, first)

SpecGroups == Init /\ [][NextGroups]_vars

\* ---- an earlier iteration and a later one: the optimiser opens iterations,
\* the first control group toml is written, iterations are created, loaded
\* and saved by name, and forward jobs are submitted
SavedNames == {Current} \cup {ItName(i) : i \in 0..MaxIter}

NextHistory ==
    \/ NewIteration
    \/ update_control_group_toml(FALSE, TRUE)
    \/ \E i \in 0..newest : create_iteration_toml(ItName(i))
    \/ get_iteration_attributes(FALSE)
    \/ \E iteration \in SavedNames : update_iteration_toml(iteration, FALSE)
    \/ \E event \in Events : submit_job(event, "forward")

SpecHistory == Init /\ [][NextHistory]_vars

\* ---- jobs of the first iteration that are submitted, end at the site, are
\* asked for their status and deleted
NextCleanup ==
    \/ \E iteration \in FirstNames : create_iteration_toml(iteration)
    \/ \E validation \in BOOLEAN : get_iteration_attributes(validation)
    \/ \E event \in Events, sim_type \in SimTypes : submit_job(event, sim_type)
    \/ \E job_name \in 1..MaxJobs, status \in {"COMPLETE", "FAILED"} : JobEnds(job_name, status)
    \/ \E event \in Events, sim_type \in SimTypes, iteration \in {Current, ItName(0)} : get_job_status(event, sim_type, iteration)
    \/ \E sim_type \in SimTypes : delete_stored_wavefields(ItName(0), sim_type)

SpecCleanup == Init /\ [][NextCleanup]_vars

\* ---- two drivers that save iterations by name while iterations are opened,
\* created and loaded, and the control group toml is started
ConcurrentNames == {ItName(0), ItName(1)}

NextConcurrent ==
    \/ NewIteration
    \/ \E first \in BOOLEAN : update_control_group_toml(FALSE, first)
    \/ \E i \in 0..newest : create_iteration_toml(ItName(i))
    \/ get_iteration_attributes(FALSE)
    \/ \E driver \in Drivers, iteration \in ConcurrentNames : open_iteration_toml(driver, iteration, FALSE)
    \/ \E driver \in Drivers : dump_iteration_toml(driver)

SpecConcurrent == Init /\ [][NextConcurrent]_vars

\* ---- the read accessors of the jobs of the first iteration, while jobs are
\* submitted and a misfit is set
NextAccessors ==
    \/ create_iteration_toml(ItName(0))
    \/ get_iteration_attributes(FALSE)
    \/ change_attribute(<<"misfits", "E1">>, 1)
    \/ \E event \in Events, sim_type \in SimTypes : submit_job(event, sim_type)
    \/ \E event \in Events, sim_type \in SimTypes, iteration \in {Current, ItName(0)} : get_job_name(event, sim_type, iteration)
    \/ \E event \in Events, sim_type \in SimTypes, iteration \in {Current, ItName(0)} : get_job_status(event, sim_type, iteration)
    \/ \E event \in Events, sim_type \in SimTypes : get_job_file_paths(event, sim_type)

SpecAccessors == Init /\ [][NextAccessors]_vars

\* ---- two drivers that update the control group toml, which is written
\* first when it does not exist, while iterations are opened, created once
\* and loaded, and the new control group is set
NextLedger ==
    \/ NewIteration
    \/ ~control_group_toml.exists /\ update_control_group_toml(FALSE, TRUE)
    \/ \E i \in 0..newest : ItName(i) \notin DOMAIN iteration_tomls /\ create_iteration_toml(ItName(i))
    \/ get_iteration_attributes(FALSE)
    \/ change_attribute(<<"new_control_group">>, {"E1"})
    \/ \E driver \in Drivers, new \in BOOLEAN : load_control_group_toml(driver, new)
    \/ \E driver \in Drivers : dump_control_group_toml(driver)

SpecLedger == Init /\ [][NextLedger]_vars

\* ======================================================================
\* Properties
\* ======================================================================
AllEvents == Events \cup ValidationEvents

\* the in-memory job record submit_job writes to
MemoryJob(proj, event, sim_type) == IF sim_type = "forward" THEN proj.forward_job[event] ELSE proj.adjoint_job[event]

\* the iteration toml holds a job record for (event, sim_type)
HasPersistedJob(tomls, iteration, event, sim_type) ==
    /\ iteration \in DOMAIN tomls
    /\ event \in DOMAIN tomls[iteration].events
    /\ sim_type \in DOMAIN tomls[iteration].events[event].job_info

PersistedJob(tomls, iteration, event, sim_type) == tomls[iteration].events[event].job_info[sim_type]

\* every job record of an iteration toml
JobRecordsOf(it_dict) ==
    UNION {{it_dict.events[event].job_info[kind] : kind \in DOMAIN it_dict.events[event].job_info} : event \in DOMAIN it_dict.events}
        \cup (IF "smoothing" \in DOMAIN it_dict THEN {it_dict.smoothing} ELSE {})

\* submit_job(event, sim_type) raises nowhere
SubmitJobReturns(event, sim_type) ==
    /\ CanRecordJob(project, event, sim_type)
    /\ UpdateOk(RecordedJob(project, event, sim_type, NextJobName(site)), iteration_tomls, control_group_toml, inversion_mode, Current, FALSE)

\* what C1 says of a submit_job step: memory and toml hold the handle
HandleRecorded(event, sim_type) ==
    LET before == MemoryJob(project, event, sim_type)
        after == MemoryJob(project', event, sim_type)
        it == project'.current_iteration
    IN  /\ after.name = NextJobName(site) /\ after.submitted
        /\ after.retrieved = before.retrieved /\ after.reposts = before.reposts
        /\ HasPersistedJob(iteration_tomls', it, event, sim_type)
        /\ PersistedJob(iteration_tomls', it, event, sim_type) = after

\* the current iteration keeps a job record of this kind
KindIsRecorded(sim_type) == sim_type = "forward" \/ ~IsValidation(project.current_iteration)

C2_NameIffSubmitted ==
    \A iteration \in DOMAIN iteration_tomls :
        \A job \in JobRecordsOf(iteration_tomls[iteration]) : (job.name # NoName) <=> job.submitted

\* a toml written by update_iteration_toml holds a named, submitted job
C2_Witness ==
    \E iteration \in DOMAIN iteration_tomls :
        /\ writer[iteration] = "update_iteration_toml"
        /\ \E job \in JobRecordsOf(iteration_tomls[iteration]) : job.name # NoName /\ job.submitted

\* ---- C3
\* the place of a job record in (false,false) < (true,false) < (true,true)
Rank(job) == IF ~job.submitted THEN 0 ELSE IF ~job.retrieved THEN 1 ELSE 2

\* retrieved implies submitted
WellFormed(job) == job.retrieved => job.submitted

\* the job records an iteration toml holds, by their place in it
JobKeysOf(it_dict) ==
    {<<event, kind>> : event \in DOMAIN it_dict.events, kind \in SimTypes}
        \cup (IF "smoothing" \in DOMAIN it_dict THEN {<<"", "smoothing">>} ELSE {})

HasJobAt(it_dict, key) ==
    IF key[1] = "" THEN "smoothing" \in DOMAIN it_dict
    ELSE key[1] \in DOMAIN it_dict.events /\ key[2] \in DOMAIN it_dict.events[key[1]].job_info

JobAt(it_dict, key) == IF key[1] = "" THEN it_dict.smoothing ELSE it_dict.events[key[1]].job_info[key[2]]

\* this step submits again a job that memory holds as submitted
IsResubmission(key) ==
    /\ key[2] \in {"forward", "adjoint"}
    /\ submit_job(key[1], key[2])
    /\ CanRecordJob(project, key[1], key[2])
    /\ MemoryJob(project, key[1], key[2]).submitted

\* the persisted records of iteration do not move backwards in this step
StaysOrAdvances(iteration) ==
    \A key \in JobKeysOf(iteration_tomls[iteration]) :
        (HasJobAt(iteration_tomls[iteration], key) /\ HasJobAt(iteration_tomls'[iteration], key) /\ ~IsResubmission(key))
            => Rank(JobAt(iteration_tomls'[iteration], key)) >= Rank(JobAt(iteration_tomls[iteration], key))

AllWellFormed(tomls) == \A iteration \in DOMAIN tomls : \A job \in JobRecordsOf(tomls[iteration]) : WellFormed(job)

C8_AlreadySubmittedFails ==
    [][\A event \in AllEvents, sim_type \in {"forward", "adjoint"} :
          (submit_job(event, sim_type) /\ CanRecordJob(project, event, sim_type) /\ MemoryJob(project, event, sim_type).submitted)
              => (site' = site /\ MemoryJob(project', event, sim_type).name = MemoryJob(project, event, sim_type).name)]_vars

\* ---- C4
\* the iteration toml that loading with get_iteration_attributes(validation)
\* and saving with update_iteration_toml leaves behind
LoadedAndSaved(validation) ==
    LET name == AttributesName(validation)
        loaded == LoadedAttributes(project, iteration_tomls[name], inversion_mode, validation)
    IN  UpdatedTomls(loaded, iteration_tomls, control_group_toml, inversion_mode, Current, validation)[name]

\* the load and the save of the round trip both return
RoundTripReturns(validation) ==
    LET name == AttributesName(validation)
        loaded == LoadedAttributes(project, iteration_tomls[name], inversion_mode, validation)
    IN  UpdateOk(loaded, iteration_tomls, control_group_toml, inversion_mode, Current, validation)

\* C4 (as stated): an iteration toml that update_iteration_toml has written,
\* loaded with get_iteration_attributes and saved again with
\* update_iteration_toml, is written back equal to what it was, for regular
\* and validation iterations in both inversion modes.
C4_RoundTrip ==
    \A validation \in BOOLEAN :
        (AttributesName(validation) \in DOMAIN iteration_tomls /\ writer[AttributesName(validation)] = "update_iteration_toml")
            => (RoundTripReturns(validation) /\ LoadedAndSaved(validation) = iteration_tomls[AttributesName(validation)])

\* ---- C5
\* the attributes of the current, regular iteration are loaded
RegularLoaded ==
    /\ ~IsValidation(project.current_iteration)
    /\ project.current_iteration \in DOMAIN iteration_tomls
    /\ "smoothing_job" \in DOMAIN project
    /\ \A event \in Events : HasKey(project, "forward_job", event) /\ HasKey(project, "adjoint_job", event) /\ HasKey(project, "misfits", event) /\ HasKey(project, "updated", event)

\* the toml of the current iteration holds the full in-memory state
FullStateWritten(tomls, proj) ==
    LET it_dict == tomls[proj.current_iteration]
    IN  /\ "smoothing" \in DOMAIN it_dict
        /\ it_dict.smoothing = proj.smoothing_job
        /\ \A event \in Events :
              /\ it_dict.events[event].job_info.forward = proj.forward_job[event]
              /\ it_dict.events[event].job_info.adjoint = proj.adjoint_job[event]
              /\ it_dict.events[event].misfit = proj.misfits[event]
              /\ it_dict.events[event].usage_updated = proj.updated[event]

\* C5 (as stated): in mono-batch mode update_iteration_toml of a regular
\* iteration completes and leaves a toml that holds the iteration's smoothing
\* job record, equal to smoothing_job in memory, and every per-event record.
C5_MonoBatchSaveWritesFullState ==
    (inversion_mode = "mono-batch" /\ RegularLoaded)
        => /\ UpdateOk(project, iteration_tomls, control_group_toml, inversion_mode, Current, FALSE)
           /\ FullStateWritten(UpdatedTomls(project, iteration_tomls, control_group_toml, inversion_mode, Current, FALSE), project)

\* ---- C6, C7
\* retrieve_outputs(event, sim_type) finds the job of the record at the site
\* in this status
RetrievesJobIn(event, sim_type, statuses) ==
    /\ retrieve_outputs(event, sim_type)
    /\ CanReadJobName(project, inversion_mode, event, sim_type)
    /\ JobExists(site, CurrentJobName(project, inversion_mode, event, sim_type))
    /\ site[CurrentJobName(project, inversion_mode, event, sim_type)] \in statuses

\* C6 (as stated): retrieve_outputs(event, sim_type) fails and copies no
\* output of the job whenever the job's status at the site is not COMPLETE.
C6_RetrievalGated ==
    [][\A event \in Events, sim_type \in {"forward", "adjoint"} :
          RetrievesJobIn(event, sim_type, {"RUNNING", "FAILED"}) => outputs' = outputs]_vars

\* C7 (as stated): after retrieve_outputs(event, sim_type) has copied the
\* output of a COMPLETE job, the job record of (event, sim_type) has
\* retrieved = true in memory and in the iteration toml.
C7_RetrievedMarked ==
    [][\A event \in Events, sim_type \in {"forward", "adjoint"} :
          (RetrievesJobIn(event, sim_type, {"COMPLETE"}) /\ CurrentJobName(project, inversion_mode, event, sim_type) \in outputs')
              => /\ MemoryJob(project', event, sim_type).retrieved
                 /\ PersistedJob(iteration_tomls', project'.current_iteration, event, sim_type).retrieved]_vars

\* ---- C9
\* this step submits again a job that the site reports as failed
ResubmitsFailed(event, sim_type) ==
    /\ submit_job(event, sim_type)
    /\ CanRecordJob(project, event, sim_type)
    /\ MemoryJob(project, event, sim_type).submitted
    /\ JobExists(site, MemoryJob(project, event, sim_type).name)
    /\ site[MemoryJob(project, event, sim_type).name] = "FAILED"

\* C9 (as stated): when a submitted job is submitted again after the site
\* reported its failure, reposts grows by exactly one, name becomes the new
\* handle, retrieved is false, and the record is persisted.
C9_ResubmissionCounted ==
    [][\A event \in Events, sim_type \in {"forward", "adjoint"} :
          ResubmitsFailed(event, sim_type)
              => /\ MemoryJob(project', event, sim_type).reposts = MemoryJob(project, event, sim_type).reposts + 1
                 /\ MemoryJob(project', event, sim_type).name = NextJobName(site)
                 /\ ~MemoryJob(project', event, sim_type).retrieved
                 /\ PersistedJob(iteration_tomls', project'.current_iteration, event, sim_type) = MemoryJob(project', event, sim_type)]_vars

\* ---- C10
\* the iteration before a regular iteration
PreviousOf(iteration) == ItName(iteration.idx - 1)

\* ledger[i].old = ledger[previous(i)].new for every regular iteration i of
\* the ledger but the first
Chained(cg) ==
    \A iteration \in DOMAIN cg.dict :
        (~IsValidation(iteration) /\ iteration.idx > 0)
            => /\ "old" \in DOMAIN cg.dict[iteration]
               /\ PreviousOf(iteration) \in DOMAIN cg.dict
               /\ "new" \in DOMAIN cg.dict[PreviousOf(iteration)]
               /\ cg.dict[iteration].old = cg.dict[PreviousOf(iteration)].new

\* C10 (as stated): a start (new=False) or a commit (new=True) of
\* update_control_group_toml leaves every regular iteration of the ledger
\* but the first with old equal to the new of the iteration before it.
C10_Chained ==
    [][\A new \in BOOLEAN :
          (update_control_group_toml(new, FALSE) /\ Chained(control_group_toml)) => Chained(control_group_toml')]_vars

\* ---- C11
\* the ledger holds the new control group of the iteration before this one
PreviousGroupKnown(cg, iteration) ==
    /\ cg.exists
    /\ PreviousOf(iteration) \in DOMAIN cg.dict
    /\ "new" \in DOMAIN cg.dict[PreviousOf(iteration)]

\* create_iteration_toml(iteration) writes the toml
Creates(iteration) ==
    /\ create_iteration_toml(iteration)
    /\ NeedsLastControlGroup(iteration) => CanReadLastControlGroup(control_group_toml)

\* C11 (as stated): create_iteration_toml of a regular iteration writes
\* last_control_group = the new control group of the iteration immediately
\* before it (empty for it0000_model) and new_control_group = empty.
C11_CreateChainsLastGroup ==
    [][\A i \in 0..MaxIter :
          (Creates(ItName(i)) /\ (i > 0 => PreviousGroupKnown(control_group_toml, ItName(i))))
              => /\ iteration_tomls'[ItName(i)].new_control_group = {}
                 /\ iteration_tomls'[ItName(i)].last_control_group = (IF i = 0 THEN {} ELSE control_group_toml.dict[PreviousOf(ItName(i))].new)]_vars

\* ---- C12
\* C12 (as stated): update_control_group_toml(new=True) for a current
\* iteration that has no entry in the ledger raises and leaves the ledger as
\* it is.
C12_CommitWithoutStartFails ==
    [][(update_control_group_toml(TRUE, FALSE) /\ project.current_iteration \notin DOMAIN control_group_toml.dict)
          => control_group_toml' = control_group_toml]_vars

\* ---- C13
\* C13 (as stated): while the current iteration is a validation iteration
\* update_control_group_toml leaves the ledger as it is, and the ledger never
\* holds an entry under the name of a validation iteration.
C13_NoValidationBookkeeping ==
    [][/\ \A iteration \in DOMAIN control_group_toml'.dict : ~IsValidation(iteration)
       /\ \A new \in BOOLEAN, first \in BOOLEAN :
             (update_control_group_toml(new, first) /\ IsValidation(project.current_iteration))
                 => control_group_toml' = control_group_toml]_vars

\* ---- C14
\* a job record as create_iteration_toml seeds it
IsFreshJob(job) == job.name = NoName /\ ~job.submitted /\ ~job.retrieved /\ job.reposts = NoReposts

\* the record of a regular iteration as create_iteration_toml seeds it in
\* mini-batch mode
IsFreshMiniBatch(it_dict, iteration) ==
    /\ DOMAIN it_dict.events = list_events(iteration)
    /\ \A event \in DOMAIN it_dict.events :
          /\ DOMAIN it_dict.events[event].job_info = {"forward", "adjoint", "smoothing"}
          /\ \A kind \in {"forward", "adjoint", "smoothing"} : IsFreshJob(it_dict.events[event].job_info[kind])
          /\ it_dict.events[event].misfit = ZeroMisfit
          /\ it_dict.events[event].usage_updated = FALSE

\* C14: in mini-batch mode the toml that create_iteration_toml has written
\* for a regular iteration holds exactly the events list_events gives for it,
\* each with forward, adjoint and smoothing job records of name "",
\* submitted false, retrieved false, reposts 0, with misfit 0.0 and
\* usage_updated false.
C14_CreateSeedsRecords ==
    \A iteration \in DOMAIN iteration_tomls :
        (inversion_mode = "mini-batch" /\ ~IsValidation(iteration) /\ writer[iteration] = "create_iteration_toml")
            => IsFreshMiniBatch(iteration_tomls[iteration], iteration)

\* a regular iteration was created again in mini-batch mode over a record
\* that held a submitted job
C14_Witness ==
    /\ inversion_mode = "mini-batch"
    /\ ItName(0) \in DOMAIN iteration_tomls
    /\ writer[ItName(0)] = "create_iteration_toml"
    /\ ItName(0) \in DOMAIN backups
    /\ \E job \in JobRecordsOf(backups[ItName(0)]) : job.submitted

\* ---- C15
\* the record holds one smoothing job record, at iteration level
HasSingleSmoothing(it_dict) ==
    /\ "smoothing" \in DOMAIN it_dict
    /\ \A event \in DOMAIN it_dict.events : "smoothing" \notin DOMAIN it_dict.events[event].job_info

\* C15: in mono-batch mode every toml of a regular iteration written by
\* create_iteration_toml or update_iteration_toml holds exactly one smoothing
\* job record, at iteration level, and no smoothing record under an event.
C15_MonoBatchSingleSmoothing ==
    \A iteration \in DOMAIN iteration_tomls :
        (inversion_mode = "mono-batch" /\ ~IsValidation(iteration)) => HasSingleSmoothing(iteration_tomls[iteration])

\* a regular iteration of a mono-batch inversion is loaded, a job of it is
\* submitted in memory, and its toml is the one create_iteration_toml wrote
C15_Witness ==
    /\ inversion_mode = "mono-batch"
    /\ project.current_iteration = ItName(0)
    /\ ItName(0) \in DOMAIN iteration_tomls
    /\ \E event \in Events : HasKey(project, "forward_job", event) /\ project.forward_job[event].submitted
    /\ writer[ItName(0)] = "create_iteration_toml"

\* ---- C16
\* the record of a validation iteration: per event a forward job record with
\* windows_selected and nothing else, no control groups, no smoothing
IsValidationRecord(it_dict) ==
    /\ DOMAIN it_dict = {"name", "events"}
    /\ \A event \in DOMAIN it_dict.events :
          /\ DOMAIN it_dict.events[event] = {"job_info"}
          /\ DOMAIN it_dict.events[event].job_info = {"forward"}
          /\ "windows_selected" \in DOMAIN it_dict.events[event].job_info.forward

IsFreshRecord(it_dict, iteration) ==
    /\ it_dict.name = iteration
    /\ DOMAIN it_dict.events = list_events(iteration)
    /\ \A job \in JobRecordsOf(it_dict) : IsFreshJob(job)
    /\ \A event \in DOMAIN it_dict.events :
          /\ "misfit" \in DOMAIN it_dict.events[event] => it_dict.events[event].misfit = ZeroMisfit
          /\ "usage_updated" \in DOMAIN it_dict.events[event] => ~it_dict.events[event].usage_updated
    /\ "new_control_group" \in DOMAIN it_dict => it_dict.new_control_group = {}

C18_BackupsKept ==
    [][\A iteration \in DOMAIN backups :
          /\ iteration \in DOMAIN backups'
          /\ backups[iteration] \in {backups'[iteration], iteration_tomls'[iteration]}]_vars

\* ---- C19
\* C19: get_iteration_attributes and get_old_iteration_info for an iteration
\* that has no toml raise and leave the attributes in memory
\* (current_iteration, the job records, misfits, updated, control groups)
\* and every file as they are.
C19_LoadMissingFails ==
    [][/\ \A validation \in BOOLEAN :
             (get_iteration_attributes(validation) /\ ~CanLoad(iteration_tomls, validation)) => UNCHANGED vars
       /\ \A iteration \in FirstNames :
             (get_old_iteration_info(iteration) /\ ~CanGetOldIterationInfo(iteration_tomls, iteration)) => UNCHANGED vars]_vars

\* the attributes of a validation iteration are in memory and the regular
\* iteration a load would name has no toml
C19_Witness ==
    /\ ~CanLoad(iteration_tomls, FALSE)
    /\ ~CanGetOldIterationInfo(iteration_tomls, ItName(0))
    /\ IsValidation(project.current_iteration)
    /\ "forward_job" \in DOMAIN project

\* ---- C20
\* a later iteration than this one has a toml
Superseded(tomls, iteration) ==
    /\ iteration \in DOMAIN tomls
    /\ \E later \in DOMAIN tomls : ~IsValidation(later) /\ later.idx > iteration.idx

\* C20 (as stated): once a later iteration has been created, no
\* update_iteration_toml, submit_job, job name lookup or creation of the
\* later iteration changes the toml of an earlier iteration.
C20_EarlierIterationKept ==
    [][\A i \in 0..MaxIter :
          (Superseded(iteration_tomls, ItName(i)) /\ ~create_iteration_toml(ItName(i)))
              => iteration_tomls'[ItName(i)] = iteration_tomls[ItName(i)]]_vars

\* ---- C21
\* C21: get_old_iteration_info(name) returns exactly the toml of name and
\* changes no file and no attribute in memory.
C21_OldInfoReadOnly ==
    [][/\ \A iteration \in FirstNames : get_old_iteration_info(iteration) => UNCHANGED vars
       /\ \A iteration \in DOMAIN iteration_tomls' :
             /\ CanGetOldIterationInfo(iteration_tomls', iteration)
             /\ OldIterationInfo(iteration_tomls', iteration) = iteration_tomls'[iteration]]_vars

\* the toml of the first iteration and the attributes in memory differ, so
\* that what is returned is the file and not the memory
C21_Witness ==
    /\ CanGetOldIterationInfo(iteration_tomls, ItName(0))
    /\ project.current_iteration = ItName(0)
    /\ HasKey(project, "misfits", "E1")
    /\ OldIterationInfo(iteration_tomls, ItName(0)).events["E1"].misfit # project.misfits["E1"]

\* ---- C22
\* C22: delete_stored_wavefields(iteration, sim_type) deletes the job of
\* every event of the iteration toml whose job is at the site and whose
\* delete the site accepts, whatever happens to the other events' deletes.
C22_DeleteBestEffort ==
    \A iteration \in FirstNames, sim_type \in SimTypes :
        CanGetOldIterationInfo(iteration_tomls, iteration) =>
            LET iter_info == OldIterationInfo(iteration_tomls, iteration)
            IN  \A order \in EventOrders(DOMAIN iter_info.events), fails \in SUBSET DOMAIN iter_info.events :
                    \A event \in DOMAIN iter_info.events \ fails :
                        (/\ sim_type \in DOMAIN iter_info.events[event].job_info
                         /\ JobExists(site, iter_info.events[event].job_info[sim_type].name))
                            => DeletedJobs(site, iter_info, sim_type, order, fails)[iter_info.events[event].job_info[sim_type].name] = "DELETED"

\* ---- C23
\* C23: no job record, in memory or in an iteration toml, is submitted with
\* the name of a job that delete_stored_wavefields has deleted at the site.
C23_DeletedJobsReset ==
    /\ \A iteration \in DOMAIN iteration_tomls : \A record \in JobRecordsOf(iteration_tomls[iteration]) :
           (record.submitted /\ JobExists(site, record.name)) => site[record.name] # "DELETED"
    /\ \A event \in Events, sim_type \in {"forward", "adjoint"} :
           (/\ HasCurrentRecord(project, inversion_mode, event, sim_type)
            /\ CurrentRecord(project, inversion_mode, event, sim_type).submitted
            /\ JobExists(site, CurrentRecord(project, inversion_mode, event, sim_type).name))
               => site[CurrentRecord(project, inversion_mode, event, sim_type).name] # "DELETED"

\* ---- C24
\* C24: a get_job_status call changes nothing in memory and in the files,
\* and what it returns for a job that get_job finds is the status the site
\* holds for the recorded name at that moment.
C24_StatusFreshReadOnly ==
    [][\A event \in Events, sim_type \in SimTypes, iteration \in {Current, ItName(0)} :
          /\ get_job_status(event, sim_type, iteration) => UNCHANGED <<project, iteration_tomls, backups, control_group_toml>>
          /\ CanGetJob(project', iteration_tomls', inversion_mode', site', event, sim_type, iteration)
                => GotJobStatus(project', iteration_tomls', inversion_mode', site', event, sim_type, iteration)
                      = site'[JobNameOf(project', iteration_tomls', inversion_mode', event, sim_type, iteration)]]_vars

\* one submitted job of the current iteration has ended at the site since
\* its submission and another one is still running
C24_Witness ==
    /\ CanGetJob(project, iteration_tomls, inversion_mode, site, "E1", "forward", Current)
    /\ GotJobStatus(project, iteration_tomls, inversion_mode, site, "E1", "forward", Current) = "COMPLETE"
    /\ CanGetJob(project, iteration_tomls, inversion_mode, site, "E2", "forward", Current)
    /\ GotJobStatus(project, iteration_tomls, inversion_mode, site, "E2", "forward", Current) = "RUNNING"

\* ---- C25
\* the toml of the current, regular iteration agrees with memory on the
\* misfits, the usage flags and the new control group
SetAttributesWritten(tomls, proj) ==
    LET it_dict == tomls[proj.current_iteration]
    IN  /\ it_dict.new_control_group = proj.new_control_group
        /\ \A event \in Events :
              /\ it_dict.events[event].misfit = proj.misfits[event]
              /\ it_dict.events[event].usage_updated = proj.updated[event]

\* C25: when change_attribute returns in a loaded, regular iteration, the
\* iteration toml holds what memory holds for the attributes it can set.
C25_SetterPersists ==
    [][\A input \in StoreInputs :
          (change_attribute(input[1], input[2]) /\ RegularLoaded /\ CanChange(project, input[1]))
              => SetAttributesWritten(iteration_tomls', project')]_vars

\* ---- C26
\* the job record of (event, sim_type) in memory is not submitted under a
\* name that the toml of the current iteration lacks
NothingUnsaved(proj, tomls, event, sim_type) ==
    MemoryJob(proj, event, sim_type).submitted
        => /\ HasPersistedJob(tomls, proj.current_iteration, event, sim_type)
           /\ PersistedJob(tomls, proj.current_iteration, event, sim_type).name = MemoryJob(proj, event, sim_type).name
           /\ PersistedJob(tomls, proj.current_iteration, event, sim_type).submitted

\* C26: when update_iteration_toml raises in submit_job, or is not reached
\* in submit_smoothing_job, the job record in memory holds no name and no
\* submitted flag that the iteration toml lacks.
C26_NoUnsavedSubmission ==
    [][/\ \A event \in AllEvents, sim_type \in {"forward", "adjoint"} :
             (submit_job(event, sim_type) /\ CanRecordJob(project, event, sim_type) /\ ~SubmitJobReturns(event, sim_type))
                 => NothingUnsaved(project', iteration_tomls', event, sim_type)
       /\ \A event \in Events, par \in SmoothingParams :
             (submit_smoothing_job(event, par) /\ "smoothing_job" \in DOMAIN project)
                 => project'.smoothing_job = project.smoothing_job]_vars

\* ---- C27
\* the smoothing record of the toml that the inversion mode designates
HasSmoothingRecord(it_dict, mode, event) ==
    IF mode = "mono-batch" THEN "smoothing" \in DOMAIN it_dict
    ELSE event \in DOMAIN it_dict.events /\ "smoothing" \in DOMAIN it_dict.events[event].job_info

SmoothingRecord(it_dict, mode, event) == IF mode = "mono-batch" THEN it_dict.smoothing ELSE it_dict.events[event].job_info.smoothing

\* get_job and get_job_name for the smoothing job of an iteration given by
\* name read the record the mode designates
OldSmoothingAddressed(tomls, mode, event, iteration) ==
    HasSmoothingRecord(tomls[iteration], mode, event)
        => /\ HasOldRecord(tomls, mode, event, "smoothing", iteration)
           /\ OldRecord(tomls, mode, event, "smoothing", iteration) = SmoothingRecord(tomls[iteration], mode, event)
           /\ CanReadOldJobName(tomls, event, "smoothing", iteration)
           /\ OldJobName(tomls, event, "smoothing", iteration) = SmoothingRecord(tomls[iteration], mode, event).name

\* the smoothing record in memory that the mode designates holds this name
MemorySmoothingNamed(proj, mode, event, job_name) ==
    /\ HasCurrentRecord(proj, mode, event, "smoothing")
    /\ CurrentRecord(proj, mode, event, "smoothing").name = job_name

\* C27: for the smoothing job, get_job and get_job_name of an iteration
\* given by name read, and submit_smoothing_job writes, the iteration's one
\* smoothing record in mono-batch mode and the event's smoothing record in
\* mini-batch mode.
C27_SmoothingByMode ==
    [][/\ \A iteration \in DOMAIN iteration_tomls', event \in Events :
             ~IsValidation(iteration) => OldSmoothingAddressed(iteration_tomls', inversion_mode', event, iteration)
       /\ \A event \in Events, par \in SmoothingParams :
             (submit_smoothing_job(event, par) /\ RegularLoaded)
                 => MemorySmoothingNamed(project', inversion_mode', event, NextJobName(site))]_vars

\* ---- C28
\* what a reader finds in the file is a whole record
IsCompleteRecord(it_dict) == {"name", "events"} \subseteq DOMAIN it_dict

\* C28: at every moment, also while update_iteration_toml writes it, an
\* iteration toml holds a complete record, the old one or the new one, so
\* that a reader or a crash at that moment finds no empty file.
C28_SaveAtomic ==
    \A iteration \in DOMAIN iteration_tomls :
        /\ CanGetOldIterationInfo(iteration_tomls, iteration)
        /\ IsCompleteRecord(OldIterationInfo(iteration_tomls, iteration))

\* ---- C29
\* the other driver is not writing the iteration that this one writes
SavesAlone(driver) == \A other \in Drivers \ {driver} : saving[other] = Idle \/ saving[other].iteration # saving[driver].iteration

\* C29: when a driver's update_iteration_toml ends while no other driver
\* saves the same iteration, the iteration's toml is the record that this
\* call built, and neither its open nor its toml.dump changes the toml of
\* another iteration.
C29_DistinctSavesIndependent ==
    [][\A driver \in Drivers :
          /\ (dump_iteration_toml(driver) /\ SavesAlone(driver))
                => /\ iteration_tomls'[saving[driver].iteration] = saving[driver].it_dict
                   /\ \A iteration \in DOMAIN iteration_tomls \ {saving[driver].iteration} : iteration_tomls'[iteration] = iteration_tomls[iteration]
          /\ \A name \in ConcurrentNames :
                (open_iteration_toml(driver, name, FALSE) /\ UpdateOk(project, iteration_tomls, control_group_toml, inversion_mode, name, FALSE))
                    => \A iteration \in DOMAIN iteration_tomls \ {name} : iteration_tomls'[iteration] = iteration_tomls[iteration]]_vars

\* the two drivers are between open and toml.dump, one for the first
\* iteration and one for the second, and a toml.dump is about to end
C29_Witness ==
    /\ saving[1] # Idle /\ saving[2] # Idle
    /\ saving[1].iteration = ItName(0) /\ saving[2].iteration = ItName(1)
    /\ SavesAlone(1) /\ SavesAlone(2)
    /\ iteration_tomls[ItName(0)] = Truncated /\ iteration_tomls[ItName(1)] = Truncated
    /\ saving[1].it_dict # saving[2].it_dict

\* ---- C30
\* C30: in every iteration toml, written by create_iteration_toml or by
\* update_iteration_toml, each event under events is in the list the event
\* catalog gives for that iteration.
C30_EventsFromCatalog ==
    \A iteration \in DOMAIN iteration_tomls :
        DOMAIN iteration_tomls[iteration].events \subseteq list_events(iteration_tomls[iteration].name)

\* a regular iteration's toml saved by update_iteration_toml and a
\* validation iteration's toml, each with events of its own
C30_Witness ==
    /\ {ItName(0), ValidationName(ItName(0))} \subseteq DOMAIN iteration_tomls
    /\ writer[ItName(0)] = "update_iteration_toml"
    /\ DOMAIN iteration_tomls[ItName(0)].events # {}
    /\ DOMAIN iteration_tomls[ValidationName(ItName(0))].events # DOMAIN iteration_tomls[ItName(0)].events

\* ---- C31
\* the job records of the current iteration in memory
MemoryRecordsOf(proj, mode) ==
    (IF "forward_job" \in DOMAIN proj THEN {proj.forward_job[event] : event \in DOMAIN proj.forward_job} ELSE {})
        \cup (IF "adjoint_job" \in DOMAIN proj THEN {proj.adjoint_job[event] : event \in DOMAIN proj.adjoint_job} ELSE {})
        \cup (IF "smoothing_job" \in DOMAIN proj
              THEN IF mode = "mono-batch" THEN {proj.smoothing_job} ELSE {proj.smoothing_job[event] : event \in DOMAIN proj.smoothing_job}
              ELSE {})

\* submit_job(event, sim_type) raises nowhere, for any sim_type
SubmitReturns(event, sim_type) ==
    /\ CanRecordJob(project, event, sim_type)
    /\ UpdateOk(RecordedJob(project, event, sim_type, NextJobName(site)), iteration_tomls, control_group_toml, inversion_mode, Current, FALSE)

\* C31: when submit_job returns, the name of the job that sapi.run_async
\* started is the name of a job record of the current iteration, in memory
\* or in its toml, for forward, adjoint and smoothing alike.
C31_EverySubmissionRecorded ==
    [][\A event \in AllEvents, sim_type \in SimTypes :
          (submit_job(event, sim_type) /\ SubmitReturns(event, sim_type))
              => \E record \in MemoryRecordsOf(project', inversion_mode') \cup JobRecordsOf(iteration_tomls'[project'.current_iteration]) :
                    record.name = NextJobName(site)]_vars

\* ---- C32
\* the job record that get_job(event, sim_type, iteration) reads
HasAddressedRecord(proj, tomls, mode, event, sim_type, iteration) ==
    IF IsCurrentIteration(proj, iteration)
    THEN HasCurrentRecord(proj, mode, event, sim_type)
    ELSE HasOldRecord(tomls, mode, event, sim_type, iteration)

AddressedRecord(proj, tomls, mode, event, sim_type, iteration) ==
    IF IsCurrentIteration(proj, iteration)
    THEN CurrentRecord(proj, mode, event, sim_type)
    ELSE OldRecord(tomls, mode, event, sim_type, iteration)

\* C32: get_job raises, and asks the site for no job, whenever the job
\* record it reads has submitted = false, for the current iteration and for
\* an iteration given by name.
C32_UnsubmittedRaises ==
    \A event \in Events, sim_type \in SimTypes, iteration \in {Current, ItName(0)} :
        (/\ HasAddressedRecord(project, iteration_tomls, inversion_mode, event, sim_type, iteration)
         /\ ~AddressedRecord(project, iteration_tomls, inversion_mode, event, sim_type, iteration).submitted)
            => ~HasJobName(project, iteration_tomls, inversion_mode, event, sim_type, iteration)

\* ---- C33
\* C33: update_control_group_toml keeps, as they are, the entries of the
\* control group toml that belong to iterations other than the current one,
\* whatever its flags new and first are.
C33_OtherEntriesKept ==
    [][\A new \in BOOLEAN, first \in BOOLEAN :
          update_control_group_toml(new, first)
              => \A iteration \in DOMAIN control_group_toml.dict \ {project.current_iteration} :
                    /\ iteration \in DOMAIN control_group_toml'.dict
                    /\ control_group_toml'.dict[iteration] = control_group_toml.dict[iteration]]_vars

\* ---- C34
\* the entry of the current iteration holds a committed, non-empty new group
NewCommitted(cg, proj) ==
    /\ proj.current_iteration \in DOMAIN cg.dict
    /\ "new" \in DOMAIN cg.dict[proj.current_iteration]
    /\ cg.dict[proj.current_iteration].new # {}

\* C34: update_control_group_toml(new=False) for an iteration whose new
\* control group is committed leaves that new group in the control group
\* toml as it is.
C34_RestartKeepsNew ==
    [][(update_control_group_toml(FALSE, FALSE) /\ NewCommitted(control_group_toml, project) /\ ControlGroupsOk(control_group_toml, project, FALSE, FALSE))
          => /\ NewCommitted(control_group_toml', project')
             /\ control_group_toml'.dict[project'.current_iteration].new = control_group_toml.dict[project.current_iteration].new]_vars

\* ---- C35
\* the control groups of an iteration toml are those of memory and, when the
\* control group toml exists, those of its entry for the iteration
GroupsAgree(it_dict, proj, cg) ==
    /\ it_dict.last_control_group = proj.old_control_group
    /\ it_dict.new_control_group = proj.new_control_group
    /\ cg.exists => /\ proj.current_iteration \in DOMAIN cg.dict
                    /\ it_dict.last_control_group = cg.dict[proj.current_iteration].old
                    /\ it_dict.new_control_group = cg.dict[proj.current_iteration].new

\* the control groups in memory are those get_iteration_attributes loaded
\* from the toml of the current iteration
GroupsAsLoaded(proj, tomls) ==
    /\ "old_control_group" \in DOMAIN proj /\ "new_control_group" \in DOMAIN proj
    /\ proj.old_control_group = tomls[proj.current_iteration].last_control_group
    /\ proj.new_control_group = tomls[proj.current_iteration].new_control_group

\* C35: the toml that update_iteration_toml writes for the regular
\* iteration whose control groups are in memory as they were loaded holds
\* as last_control_group and new_control_group what memory holds as
\* old_control_group and new_control_group and what the control group toml
\* holds as old and new for the iteration.
C35_GroupsAgree ==
    (RegularLoaded /\ GroupsAsLoaded(project, iteration_tomls)
        /\ UpdateOk(project, iteration_tomls, control_group_toml, inversion_mode, Current, FALSE))
        => GroupsAgree(UpdatedTomls(project, iteration_tomls, control_group_toml, inversion_mode, Current, FALSE)[project.current_iteration], project, control_group_toml)

\* ---- C36
\* C36: get_job_name, get_job_status (with get_job) and get_job_file_paths
\* leave every iteration toml as it is, and in a loaded, regular iteration
\* a get_job_name that has read the name does not fail in the writing of a
\* toml.
C36_AccessorsReadOnly ==
    [][\A event \in Events, sim_type \in SimTypes, iteration \in {Current, ItName(0)} :
          /\ (get_job_name(event, sim_type, iteration) \/ get_job_status(event, sim_type, iteration) \/ get_job_file_paths(event, sim_type))
                => iteration_tomls' = iteration_tomls
          /\ (RegularLoaded' /\ ReadsJobName(project', iteration_tomls', inversion_mode', event, sim_type, iteration))
                => UpdateOk(project', iteration_tomls', control_group_toml', inversion_mode', Current, FALSE)]_vars

\* ---- C37
\* C37: when a driver's update_control_group_toml ends, the entries of the
\* other iterations that the control group toml held just before, among
\* them those another driver has written since this one read the file, are
\* still in it.
C37_LedgerUpdatesKept ==
    [][\A driver \in Drivers :
          dump_control_group_toml(driver)
              => \A iteration \in DOMAIN control_group_toml.dict \ {saving[driver].iteration} :
                    /\ iteration \in DOMAIN control_group_toml'.dict
                    /\ control_group_toml'.dict[iteration] = control_group_toml.dict[iteration]]_vars

====
